---- MODULE Spec2Model ----
(***************************************************************************)
(* A model of the puppeteer recorder (src/src/recorder.ts).                *)
(*                                                                         *)
(* Two specifications share the module:                                    *)
(*   Spec     the recording session: the output stream, the indentation    *)
(*            counter, the Debugger.paused handlers with their awaits,     *)
(*            the scroll debounce timer, navigation, page close, SIGINT;   *)
(*   SpecSel  getSelector applied to every document of a bounded family,   *)
(*            one loop iteration per step.                                 *)
(***************************************************************************)
EXTENDS Integers, Sequences, FiniteSets, TLC

VARIABLES
    \* ---- the selector resolver (getSelector, checkUnique)
    doc,          \* the document: DOM tree with accessible names and roles
    target,       \* objectId passed to getSelector (0: no resolution running)
    cur,          \* currentObjectId of the walk (0: undefined)
    prevName,     \* prevName of the walk
    selpc,        \* "idle" | "walk" | "css" | "done"
    result,       \* the selector getSelector returned
    visited,      \* the nodes whose accessibility subtree the walk has read
    \* ---- the recording session
    opts,         \* RecorderOptions: wsEndpoint given, saveDom
    mainpc,       \* the entry point: "goto" (awaiting page.goto) | "running"
                  \* | "rejected" (page.goto failed) | "exited"
    output,       \* everything pushed to the Readable, in order
    identation,   \* the indentation counter
    counts,       \* history counters (increments, decrements, close calls, ...)
    page,         \* the observed page and its debugger
    dclpc,        \* position of the domcontentloaded handler
    hpc,          \* position of the Debugger.paused handler
    hev,          \* the pause it handles (kept until the next pause)
    hst,          \* what that handler has done so far
    scrollTimeout,\* 0 (null) or the timer the variable refers to
    timers,       \* the scroll timers created so far
    fin           \* finalization: browser.close() pending or done, the SIGINT
                  \* handler awaiting it, SIGINT handlers that rejected

selvars == <<doc, target, cur, prevName, selpc, result, visited>>
sesvars == <<opts, mainpc, output, identation, counts, page, dclpc, hpc, hev,
             hst, scrollTimeout, timers, fin>>
vars == <<doc, target, cur, prevName, selpc, result, visited,
          opts, mainpc, output, identation, counts, page, dclpc, hpc, hev,
          hst, scrollTimeout, timers, fin>>

(***************************************************************************)
(* Bounds of the model.                                                    *)
(***************************************************************************)
MaxNodes == 4
\* MaxNodes: the largest document SpecSel resolves selectors in.
\* MaxInputs: how many inputs the session receives in one run of Spec
\* (navigations, the first load included, events of the page, SIGINTs,
\* failures of a protocol request).
MaxInputs == 4

(***************************************************************************)
(* Documents.  Nodes are 1..n, numbered in document order (node 1 is the   *)
(* root, parent[1] = 0).  A node may be missing from the accessibility     *)
(* tree (ax[x] = FALSE).  Accessible names are sequences of characters so  *)
(* that String.prototype.includes is a real substring test.                *)
(***************************************************************************)
Names == {<<>>, <<1>>, <<1, 2>>}
Roles == {"button", "link"}
NoRole == "undefined"

Nodes(d) == 1..d.n

RECURSIVE IsAncestorOrSelf(_, _, _)
IsAncestorOrSelf(d, a, x) ==
    IF x = 0 THEN FALSE
    ELSE IF x = a THEN TRUE
    ELSE IsAncestorOrSelf(d, a, d.parent[x])

\* String.prototype.includes
Includes(s, sub) ==
    \E i \in 0..(Len(s) - Len(sub)) : SubSeq(s, i + 1, i + Len(sub)) = sub

\* Accessibility.queryAXTree({objectId}): the accessibility nodes of the
\* subtree of x, in document order (the set; its first element is SetMin).
AXSubtree(d, x) == {y \in Nodes(d) : d.ax[y] /\ IsAncestorOrSelf(d, x, y)}

SetMin(S) == CHOOSE m \in S : \A y \in S : m <= y

\* Accessibility.queryAXTree({backendNodeId: root, accessibleName, role}):
\* the accessibility nodes of the document with that name (and role, when
\* one is given).
QueryByName(d, name, role) ==
    {y \in Nodes(d) : d.ax[y] /\ d.name[y] = name
                      /\ (role = NoRole \/ d.role[y] = role)}

\* Selectors.  NullSel is the null result.
NullSel == [form |-> "null", name |-> <<>>, role |-> NoRole, node |-> 0]
NameSel(name) == [form |-> "name", name |-> name, role |-> NoRole, node |-> 0]
NameRoleSel(name, role) ==
    [form |-> "nameRole", name |-> name, role |-> role, node |-> 0]
CssSel(x) == [form |-> "css", name |-> <<>>, role |-> NoRole, node |-> x]

\* What a selector matches in the document.
Evaluate(d, s) ==
    CASE s.form = "name" -> QueryByName(d, s.name, NoRole)
      [] s.form = "nameRole" -> QueryByName(d, s.name, s.role)
      [] s.form = "css" -> {s.node}
      [] OTHER -> {}

checkUnique(d, ignored, name, role) ==
    Cardinality(QueryByName(d, name, role) \ ignored) < 2

\* helpers.getParent, called through Runtime.callFunctionOn: the parent
\* element, no objectId (0) above the root.
getParent(d, x) == d.parent[x]

\* helpers.cssPath, called through Runtime.callFunctionOn: the structural
\* path of the node, or no value.
cssPath(d, x) == IF x \in d.nocss THEN NullSel ELSE CssSel(x)

\* The substring guard of the walk.
GuardNever(name, prev) == FALSE

GuardTrips(name, prev) == ~Includes(name, prev)

\* The tests of name without the truthiness of the string.
nameAlways(name) == TRUE

\* 'name &&' (lines 115 and 119): the empty string is falsy.
nameGiven(name) == name # <<>>

\* One iteration of the while loop of getSelector on currentObjectId x.
WalkStep(d, x, prev) ==
    LET tn == AXSubtree(d, x) IN
    IF tn = {} THEN [kind |-> "break", sel |-> NullSel, next |-> 0, name |-> prev]
    ELSE
      LET axNode == SetMin(tn)
          name == d.name[axNode]
          role == d.role[axNode]
      IN
      IF GuardTrips(name, prev)
      THEN [kind |-> "break", sel |-> NullSel, next |-> 0, name |-> prev]
      ELSE IF nameGiven(name) /\ checkUnique(d, tn, name, NoRole)
      THEN [kind |-> "return", sel |-> NameSel(name), next |-> 0, name |-> name]
      ELSE IF nameGiven(name) /\ role # "" /\ checkUnique(d, tn, name, role)
      THEN [kind |-> "return", sel |-> NameRoleSel(name, role), next |-> 0,
            name |-> name]
      ELSE [kind |-> "up", sel |-> NullSel, next |-> getParent(d, x),
            name |-> name]

RECURSIVE Walk(_, _, _, _)
Walk(d, t, x, prev) ==
    IF x = 0 THEN cssPath(d, t)
    ELSE LET s == WalkStep(d, x, prev) IN
         CASE s.kind = "return" -> s.sel
           [] s.kind = "break" -> cssPath(d, t)
           [] OTHER -> Walk(d, t, s.next, s.name)

getSelector(d, t) == Walk(d, t, t, <<>>)

(***************************************************************************)
(* SpecSel: getSelector on every document of the bounded family.           *)
(***************************************************************************)
RootRole == "RootWebArea"

\* The documents SpecSel draws: every tree shape with up to MaxNodes
\* nodes, every assignment of names and roles, the root always in the
\* accessibility tree and at most one other node outside it (hidden = 1
\* hides none; the name and role of a hidden node are never read, so one
\* value stands for all).
\* Parent vectors of the trees with k nodes numbered in document order:
\* the parent of node i is node i-1 or one of its ancestors.
ParentVectors(k) ==
    {p \in [1..k -> 0..k] :
        /\ p[1] = 0
        /\ \A i \in 2..k : /\ p[i] \in 1..(i - 1)
                           /\ IsAncestorOrSelf([parent |-> p], p[i], i - 1)}

MakeDoc(k, p, nm, rl, hidden) ==
    [n |-> k,
     parent |-> p,
     name |-> [i \in 1..k |-> IF i \in DOMAIN nm THEN nm[i] ELSE <<>>],
     role |-> [i \in 1..k |-> IF i = 1 THEN RootRole
                              ELSE IF i \in DOMAIN rl THEN rl[i]
                              ELSE "button"],
     ax |-> [i \in 1..k |-> i = 1 \/ i # hidden],
     nocss |-> {},
     submits |-> {}]

\* The document of the recording session: a page with a plain button (2),
\* a submit button (3) and an element outside the accessibility tree for
\* which cssPath yields no value (4).
SessionDoc ==
    [n |-> 4,
     parent |-> <<0, 1, 1, 1>>,
     name |-> << <<>>, <<1>>, <<2>>, <<>> >>,
     role |-> <<RootRole, "button", "button", "link">>,
     ax |-> <<TRUE, TRUE, TRUE, FALSE>>,
     nocss |-> {4},
     submits |-> {3}]

SelIdle ==
    /\ target = 0 /\ cur = 0 /\ prevName = <<>> /\ selpc = "idle"
    /\ result = NullSel /\ visited = <<>>

\* getSelector, one loop iteration (lines 101-127).
SelIterate ==
    /\ selpc = "walk"
    /\ LET s == WalkStep(doc, cur, prevName) IN
       /\ visited' = Append(visited, cur)
       /\ CASE s.kind = "return" ->
                 /\ result' = s.sel /\ selpc' = "done"
                 /\ UNCHANGED <<cur, prevName>>
            [] s.kind = "break" ->
                 /\ selpc' = "css"
                 /\ UNCHANGED <<cur, prevName, result>>
            [] OTHER ->
                 /\ cur' = s.next /\ prevName' = s.name
                 /\ selpc' = IF s.next = 0 THEN "css" ELSE "walk"
                 /\ UNCHANGED result
    /\ UNCHANGED <<doc, target>>
    /\ UNCHANGED sesvars

\* getSelector after the loop: the structural fallback (lines 128-132).
SelFallback ==
    /\ selpc = "css"
    /\ result' = cssPath(doc, target)
    /\ selpc' = "done"
    /\ UNCHANGED <<doc, target, cur, prevName, visited>>
    /\ UNCHANGED sesvars

SelNext == SelIterate \/ SelFallback

(***************************************************************************)
(* Spec: the recording session.                                            *)
(***************************************************************************)
Kinds == {"click", "submit", "change", "scroll", "other"}
TargetKinds == {"click", "submit", "change"}
Targets == {2, 3, 4}
\* The targets drawn for each kind of event: a click on the plain button,
\* the submit button or the element without selector; a submit or change
\* on an element with or without selector.
TargetsOf(kind) == IF kind = "click" THEN Targets ELSE {2, 4}

NoSel == [form |-> "none", name |-> <<>>, role |-> NoRole, node |-> 0]
NoEvent == [kind |-> "none", target |-> 0, hasObj |-> TRUE]
FreshHandler == [lines |-> 0, resumes |-> 0, sel |-> NoSel, end |-> "running"]

\* A script line before indentation; "EOS" is push(null).
Line(k, sel, val) == [k |-> k, ind |-> 0, sel |-> sel, val |-> val]
EOS == Line("EOS", NoSel, "")

\* '  '.repeat(count) without the RangeError.
RepeatClamps(ind) == FALSE

\* '  '.repeat(count) throws a RangeError for a negative count (line 153).
RepeatThrows(ind) == ind < 0

\* addLineToPuppeteerScript putting the line in front (unshift for push).
addLineInFront(out, ind, l) == <<[l EXCEPT !.ind = ind]>> \o out

\* addLineToPuppeteerScript: the output after the call, when it returns.
addLineToPuppeteerScript(out, ind, l) == Append(out, [l EXCEPT !.ind = ind])

Alive == mainpc # "exited"
Inputs == page.navs + counts.childNavs + counts.events + counts.sigints
          + counts.sendErrors
MoreInput == Inputs < MaxInputs
Bump(f) == [counts EXCEPT ![f] = @ + 1]

\* The session while SpecSel runs: not started.
SessionIdle ==
    /\ opts = [ws |-> FALSE, saveDom |-> FALSE]
    /\ mainpc = "idle" /\ output = <<>> /\ identation = 0
    /\ counts = [inc |-> 0] /\ page = [open |-> FALSE]
    /\ dclpc = "idle" /\ hpc = "idle" /\ hev = NoEvent /\ hst = FreshHandler
    /\ scrollTimeout = 0 /\ timers = <<>> /\ fin = [bc |-> "none"]

\* The entry point up to page.goto (lines 135-325): the two skeleton
\* lines are pushed at depth 0, then the counter is incremented.
Init ==
    /\ doc = SessionDoc /\ SelIdle
    /\ opts \in [ws : BOOLEAN, saveDom : BOOLEAN]
    /\ mainpc = "goto"
    /\ output = addLineToPuppeteerScript(
                  addLineToPuppeteerScript(<<>>, 0, Line("require", NoSel, "")),
                  0, Line("open", NoSel, ""))
    /\ identation = 1
    /\ counts = [inc |-> 1, dec |-> 0, closeCalls |-> 0, sigints |-> 0,
                 events |-> 0, fired |-> 0, delivered |-> 0, scrolls |-> 0,
                 childNavs |-> 0, bcCalls |-> 0, exits |-> 0,
                 sendErrors |-> 0]
    /\ page = [open |-> TRUE, paused |-> FALSE, skipAll |-> FALSE, bps |-> {},
               dbg |-> FALSE, height |-> 0, needDcl |-> FALSE, navs |-> 0]
    /\ dclpc = "idle"
    /\ hpc = "idle" /\ hev = NoEvent /\ hst = FreshHandler
    /\ scrollTimeout = 0 /\ timers = <<>>
    /\ fin = [bc |-> "none", sigint |-> "none", rejected |-> 0]

\* getSelector is entered (lines 99-100) on any node of any document of
\* the family; the session does not run.
SelInit ==
    /\ SessionIdle
    /\ \E k \in 1..MaxNodes, hidden \in 1..MaxNodes :
         /\ hidden <= k
         /\ \E p \in ParentVectors(k), t \in 1..k,
               nm \in [(1..k) \ (({hidden}) \ {1}) -> Names],
               rl \in [(2..k) \ {hidden} -> Roles] :
              /\ doc = MakeDoc(k, p, nm, rl, hidden)
              /\ target = t /\ cur = t
    /\ prevName = <<>> /\ selpc = "walk" /\ result = NullSel
    /\ visited = <<>>

----------------------------------------------------------------------------
(* Navigation and the domcontentloaded handler *)

\* A navigation of the top-level frame completes.  The framenavigated
\* handler (lines 328-333) exists once page.goto has returned.  A paused
\* page does not navigate, and the next navigation waits for the
\* domcontentloaded handler of the previous document to finish.
FrameNavigated ==
    /\ Alive /\ page.open /\ ~page.paused
    /\ MoreInput
    /\ ~page.needDcl /\ dclpc = "idle"
    /\ (mainpc = "goto" => page.navs = 0)
    /\ page' = [page EXCEPT !.navs = @ + 1, !.needDcl = TRUE]
    /\ output' = IF mainpc = "running" /\ ~RepeatThrows(identation)
                 THEN addLineToPuppeteerScript(output, identation,
                                               Line("expect", NoSel, "url"))
                 ELSE output
    /\ UNCHANGED <<opts, mainpc, identation, counts, dclpc, hpc, hev, hst,
                   scrollTimeout, timers, fin>>
    /\ UNCHANGED selvars

\* A navigation of a child frame: frame.parentFrame() is set (line 329).
FrameNavigatedChild ==
    /\ mainpc = "running" /\ page.open
    /\ MoreInput
    /\ counts' = Bump("childNavs")
    /\ UNCHANGED <<opts, mainpc, output, identation, page, dclpc, hpc, hev,
                   hst, scrollTimeout, timers, fin>>
    /\ UNCHANGED selvars

\* domcontentloaded fires: the handler sends Debugger.enable (line 179).
DomContentLoaded ==
    /\ Alive /\ page.open /\ page.needDcl /\ dclpc = "idle"
    /\ page' = [page EXCEPT !.needDcl = FALSE]
    /\ dclpc' = "enable"
    /\ UNCHANGED <<opts, mainpc, output, identation, counts, hpc, hev, hst,
                   scrollTimeout, timers, fin>>
    /\ UNCHANGED selvars

\* One await of the domcontentloaded handler returns (lines 179-188); the
\* scroll breakpoint is not requested (lines 192-196 are commented out).
DclStep ==
    /\ Alive /\ dclpc # "idle" /\ page.open
    /\ CASE dclpc = "enable" ->
              dclpc' = "click" /\ page' = [page EXCEPT !.dbg = TRUE]
         [] dclpc = "click" ->
              /\ dclpc' = "change"
              /\ page' = [page EXCEPT !.bps = @ \cup {"click"}]
         [] dclpc = "change" ->
              /\ dclpc' = "submit"
              /\ page' = [page EXCEPT !.bps = @ \cup {"change"}]
         [] OTHER ->
              /\ dclpc' = "idle"
              /\ page' = [page EXCEPT !.bps = @ \cup {"submit"}]
    /\ UNCHANGED <<opts, mainpc, output, identation, counts, hpc, hev, hst,
                   scrollTimeout, timers, fin>>
    /\ UNCHANGED selvars

\* page.goto returns (line 325): the framenavigated, close and SIGINT
\* handlers are registered (lines 328-353) and the stream is returned.
GotoDone ==
    /\ mainpc = "goto" /\ page.open
    /\ page.navs >= 1 /\ ~page.needDcl
    /\ mainpc' = "running"
    /\ UNCHANGED <<opts, output, identation, counts, page, dclpc, hpc, hev,
                   hst, scrollTimeout, timers, fin>>
    /\ UNCHANGED selvars

----------------------------------------------------------------------------
(* The observed page: events and pauses *)

\* An event fires in the page and the debugger pauses in its listener:
\* Debugger.paused is delivered and the handler sends Runtime.getProperties
\* (lines 288-295).  Click, change and submit pause through the breakpoints
\* of the domcontentloaded handler; a scroll pause or a pause of another
\* listener needs a breakpoint the recorder does not set itself.
PausedDelivered(kind, t, obj) ==
    /\ Alive /\ page.open /\ ~page.paused /\ ~page.skipAll
    /\ hpc = "idle"
    /\ MoreInput
    /\ IF kind \in TargetKinds THEN kind \in page.bps ELSE page.dbg
    /\ page' = [page EXCEPT !.paused = TRUE]
    /\ hev' = [kind |-> kind, target |-> t, hasObj |-> obj]
    /\ hst' = FreshHandler
    /\ hpc' = "props"
    /\ counts' = [counts EXCEPT !.events = @ + 1,
                     !.fired = IF kind \in TargetKinds THEN @ + 1 ELSE @,
                     !.delivered = IF kind \in TargetKinds THEN @ + 1 ELSE @,
                     !.scrolls = IF kind = "scroll" THEN @ + 1 ELSE @]
    /\ UNCHANGED <<opts, mainpc, output, identation, dclpc, scrollTimeout,
                   timers, fin>>
    /\ UNCHANGED selvars

\* A click, change or submit fires while the debugger skips all pauses
\* (between Debugger.resume and setSkipAllPauses(false), lines 216-218):
\* the page runs its listeners without pausing.
EventUnpaused(kind) ==
    /\ Alive /\ page.open /\ ~page.paused /\ page.skipAll
    /\ kind \in page.bps
    /\ MoreInput
    /\ counts' = [counts EXCEPT !.events = @ + 1, !.fired = @ + 1]
    /\ UNCHANGED <<opts, mainpc, output, identation, page, dclpc, hpc, hev,
                   hst, scrollTimeout, timers, fin>>
    /\ UNCHANGED selvars

\* The page's scroll height grows while a scroll check is outstanding.
HeightGrows ==
    /\ Alive /\ page.open
    /\ page.height < Len(timers)
    /\ \E i \in 1..Len(timers) : timers[i].phase \in {"wait", "measure"}
    /\ page' = [page EXCEPT !.height = @ + 1]
    /\ UNCHANGED <<opts, mainpc, output, identation, counts, dclpc, hpc, hev,
                   hst, scrollTimeout, timers, fin>>
    /\ UNCHANGED selvars

----------------------------------------------------------------------------
(* The Debugger.paused handler, one action per await *)

\* The handler's promise rejects: nothing after the throw runs.
Crash(cause) ==
    /\ hpc' = "idle"
    /\ hst' = [hst EXCEPT !.end = cause]

HUnchanged == UNCHANGED <<opts, mainpc, identation, counts, dclpc, hev, fin>>

\* The positions at which the handler awaits a client.send.
SendPcs == {"props", "target", "isSubmit", "value", "select", "domSend",
            "measure", "skip", "resume1", "resume2", "resume3"}

\* handleScrollEvent without the test of scrollTimeout.
scrollPendingNever(st) == FALSE

\* if (scrollTimeout) (line 267): null is 0.
scrollPending(st) == st # 0

\* Runtime.getProperties of the call frame returns (line 293) and the
\* handler dispatches on eventName (lines 296-306).  findTargetId reads
\* event.value before its first await (lines 200-204): with no object of
\* an expected class in the frame that is a TypeError.  handleScrollEvent
\* tests scrollTimeout before its first await (line 267).
HProps ==
    /\ Alive /\ hpc = "props" /\ page.open
    /\ CASE hev.kind \in TargetKinds ->
              IF hev.hasObj
              THEN hpc' = "target" /\ hst' = hst
              ELSE Crash("TypeError")
         [] hev.kind = "scroll" ->
              /\ hpc' = IF scrollPending(scrollTimeout) THEN "resume1"
                        ELSE "measure"
              /\ hst' = hst
         [] OTHER ->
              hpc' = "skip" /\ hst' = hst
    /\ UNCHANGED <<output, page, scrollTimeout, timers>>
    /\ HUnchanged
    /\ UNCHANGED selvars

\* findTargetId returns (lines 203-209): a click asks isSubmitButton
\* (line 227), a change reads this.value (line 253), a submit resolves
\* the selector (line 242).
HTarget ==
    /\ Alive /\ hpc = "target" /\ page.open
    /\ hpc' = CASE hev.kind = "click" -> "isSubmit"
                [] hev.kind = "change" -> "value"
                [] OTHER -> "select"
    /\ UNCHANGED <<output, page, scrollTimeout, timers, hst>>
    /\ HUnchanged
    /\ UNCHANGED selvars

\* handleClickEvent without the submit-button test.
clickOnSubmitNever(d, t) == FALSE

\* isSubmitButton (lines 59-68) of the click's target.
clickOnSubmit(d, t) == t \in d.submits

\* isSubmitButton returns (lines 227-230).
HIsSubmit ==
    /\ Alive /\ hpc = "isSubmit" /\ page.open
    /\ hpc' = IF clickOnSubmit(doc, hev.target) THEN "skip" ELSE "select"
    /\ UNCHANGED <<output, page, scrollTimeout, timers, hst>>
    /\ HUnchanged
    /\ UNCHANGED selvars

\* The value of the changed element returns (lines 253-258).
HValue ==
    /\ Alive /\ hpc = "value" /\ page.open
    /\ hpc' = "select"
    /\ UNCHANGED <<output, page, scrollTimeout, timers, hst>>
    /\ HUnchanged
    /\ UNCHANGED selvars

\* The handler appends the lines ls in order; '  '.repeat(identation)
\* throws before the first push when the counter is negative.
Emit(base, ls, next) ==
    IF RepeatThrows(identation)
    THEN /\ hpc' = "idle" /\ output' = output
         /\ hst' = [base EXCEPT !.end = "RangeError"]
    ELSE /\ output' = IF Len(ls) = 1
                      THEN addLineToPuppeteerScript(output, identation, ls[1])
                      ELSE addLineToPuppeteerScript(
                             addLineToPuppeteerScript(output, identation, ls[1]),
                             identation, ls[2])
         /\ hst' = [base EXCEPT !.lines = @ + Len(ls)]
         /\ hpc' = next

\* getSelector returns to handleClickEvent (lines 230-237),
\* handleSubmitEvent (lines 242-248) or handleChangeEvent (lines 258-262).
\* The awaits inside getSelector only read the page.
HSelect ==
    /\ Alive /\ hpc = "select" /\ page.open
    /\ LET sel == getSelector(doc, hev.target)
           got == [hst EXCEPT !.sel = sel]
       IN CASE hev.kind = "click" ->
                 IF sel # NullSel
                 THEN IF opts.saveDom
                      THEN hpc' = "domSend" /\ hst' = got /\ output' = output
                      ELSE Emit(got, <<Line("click", sel, "")>>, "resume1")
                 ELSE hpc' = "resume1" /\ hst' = got /\ output' = output
            [] hev.kind = "submit" ->
                 IF sel # NullSel
                 THEN Emit(got, <<Line("submit", sel, "")>>, "resume1")
                 ELSE hpc' = "resume1" /\ hst' = got /\ output' = output
            [] OTHER ->
                 Emit(got, <<Line("type", sel, "v")>>, "resume1")
    /\ UNCHANGED <<page, scrollTimeout, timers>>
    /\ HUnchanged
    /\ UNCHANGED selvars

\* saveDomIfNeeded: DOM.getDocument and DOM.getOuterHTML return
\* (lines 161-167); fs.writeFile is started (line 175).
HDomSend ==
    /\ Alive /\ hpc = "domSend" /\ page.open
    /\ hpc' = "domWrite"
    /\ UNCHANGED <<output, page, scrollTimeout, timers, hst>>
    /\ HUnchanged
    /\ UNCHANGED selvars

\* fs.writeFile returns: the snapshot comment (line 176) and then the
\* click line (line 233) are appended, whether or not the page is still
\* there; with the page gone the following resume() rejects.
HDomWrite ==
    /\ Alive /\ hpc = "domWrite"
    /\ IF page.open
       THEN Emit(hst, <<Line("dom", NoSel, ""), Line("click", hst.sel, "")>>,
                 "resume1")
       ELSE Emit([hst EXCEPT !.end = "rejected"],
                 <<Line("dom", NoSel, ""), Line("click", hst.sel, "")>>,
                 "idle")
    /\ UNCHANGED <<page, scrollTimeout, timers>>
    /\ HUnchanged
    /\ UNCHANGED selvars

\* resume(): setSkipAllPauses(true) returns (line 216).
HResume1 ==
    /\ Alive /\ hpc = "resume1" /\ page.open
    /\ page' = [page EXCEPT !.skipAll = TRUE]
    /\ hpc' = "resume2"
    /\ UNCHANGED <<output, scrollTimeout, timers, hst>>
    /\ HUnchanged
    /\ UNCHANGED selvars

\* resume(): Debugger.resume returns (lines 217, 213).
HResume2 ==
    /\ Alive /\ hpc = "resume2" /\ page.open
    /\ page' = [page EXCEPT !.paused = FALSE]
    /\ hst' = [hst EXCEPT !.resumes = @ + 1]
    /\ hpc' = "resume3"
    /\ UNCHANGED <<output, scrollTimeout, timers>>
    /\ HUnchanged
    /\ UNCHANGED selvars

\* resume(): setSkipAllPauses(false) returns (line 218); the handler ends.
HResume3 ==
    /\ Alive /\ hpc = "resume3" /\ page.open
    /\ page' = [page EXCEPT !.skipAll = FALSE]
    /\ hst' = [hst EXCEPT !.end = "done"]
    /\ hpc' = "idle"
    /\ UNCHANGED <<output, scrollTimeout, timers>>
    /\ HUnchanged
    /\ UNCHANGED selvars

\* skip(): Debugger.resume returns (line 213); the handler ends.
HSkip ==
    /\ Alive /\ hpc = "skip" /\ page.open
    /\ page' = [page EXCEPT !.paused = FALSE]
    /\ hst' = [hst EXCEPT !.resumes = @ + 1, !.end = "done"]
    /\ hpc' = "idle"
    /\ UNCHANGED <<output, scrollTimeout, timers>>
    /\ HUnchanged
    /\ UNCHANGED selvars

\* The client.send the handler awaits rejects while the page is there (a
\* protocol error: the node or the execution context is gone, the page is
\* no longer paused, ...).  The request has no effect.  The rejection
\* propagates through the awaits to the promise of the async listener
\* (lines 288-308), which nothing catches: the recorder pushes nothing
\* and its entry point, which has returned or still awaits page.goto, is
\* not told.
SendRejects ==
    /\ Alive /\ page.open /\ hpc \in SendPcs
    /\ MoreInput
    /\ Crash("sendError")
    /\ counts' = Bump("sendErrors")
    /\ UNCHANGED <<opts, mainpc, output, identation, page, dclpc, hev,
                   scrollTimeout, timers, fin>>
    /\ UNCHANGED selvars

----------------------------------------------------------------------------
(* handleScrollEvent and its timer *)

\* The first height measurement returns (lines 268-271); the timer is
\* created and scrollTimeout refers to it (lines 272-284); resume() starts.
HMeasure ==
    /\ Alive /\ hpc = "measure" /\ page.open
    /\ timers' = Append(timers, [prev |-> page.height, cur |-> 0,
                                 phase |-> "wait", emitted |-> FALSE,
                                 reset |-> 0])
    /\ scrollTimeout' = Len(timers) + 1
    /\ hpc' = "resume1"
    /\ UNCHANGED <<output, page, hst>>
    /\ HUnchanged
    /\ UNCHANGED selvars

\* The settle delay of timer i has passed: its callback asks for the
\* scroll height again (line 274).
TimerFires(i) ==
    /\ Alive /\ page.open
    /\ i \in 1..Len(timers) /\ timers[i].phase = "wait"
    /\ timers' = [timers EXCEPT ![i].phase = "measure"]
    /\ UNCHANGED <<opts, mainpc, output, identation, counts, page, dclpc,
                   hpc, hev, hst, scrollTimeout, fin>>
    /\ UNCHANGED selvars

\* The second measurement of timer i returns (lines 277-282): a line when
\* the height grew, then scrollTimeout = null.  When the push throws, the
\* callback ends before line 281.
TimerMeasured(i) ==
    /\ Alive /\ page.open
    /\ i \in 1..Len(timers) /\ timers[i].phase = "measure"
    /\ LET grew == page.height > timers[i].prev IN
       IF grew /\ RepeatThrows(identation)
       THEN /\ timers' = [timers EXCEPT ![i].phase = "failed"]
            /\ UNCHANGED <<output, scrollTimeout>>
       ELSE /\ output' = IF grew
                         THEN addLineToPuppeteerScript(output, identation,
                                  Line("scroll", NoSel, ""))
                         ELSE output
            /\ timers' = [timers EXCEPT ![i].phase = "done",
                                        ![i].cur = page.height,
                                        ![i].emitted = grew,
                                        ![i].reset = scrollTimeout]
            /\ scrollTimeout' = 0
    /\ UNCHANGED <<opts, mainpc, identation, counts, page, dclpc, hpc, hev,
                   hst, fin>>
    /\ UNCHANGED selvars

----------------------------------------------------------------------------
(* Finalization *)

\* close() up to its await (lines 336-338): the counter is decremented,
\* then the closing line and the end-of-stream marker are pushed unless
\* the indentation throws.
ClosePushes == ~RepeatThrows(identation - 1)

CloseSync ==
    /\ identation' = identation - 1
    /\ output' = IF ClosePushes
                 THEN Append(addLineToPuppeteerScript(output, identation - 1,
                                 Line("close", NoSel, "")), EOS)
                 ELSE output

\* close() without the test of options.wsEndpoint.
ClosesBrowserAlways == ClosePushes

\* close() asks for browser.close() when the recorder launched the
\* browser (lines 341-344).
ClosesBrowser == ClosePushes /\ ~opts.ws

\* The page is gone: it has no debugger state any more, and every request
\* in flight rejects (the handler, the domcontentloaded handler and the
\* timer callbacks, whose requests reject as soon as they are sent, end
\* there).  Only the handler waiting for fs.writeFile goes on.
PageGone ==
    /\ page' = [page EXCEPT !.open = FALSE, !.paused = FALSE,
                            !.skipAll = FALSE, !.bps = {}, !.dbg = FALSE,
                            !.height = 0, !.needDcl = FALSE]
    /\ dclpc' = "idle"
    /\ hpc' = IF hpc \in SendPcs THEN "idle" ELSE hpc
    /\ hst' = IF hpc \in SendPcs THEN [hst EXCEPT !.end = "rejected"] ELSE hst
    /\ timers' = [i \in 1..Len(timers) |->
                    IF timers[i].phase \in {"wait", "measure"}
                    THEN [timers[i] EXCEPT !.phase = "failed"]
                    ELSE timers[i]]

\* The page closes.  Before page.goto has returned no close handler
\* exists and page.goto rejects; afterwards close() runs (line 348).
PageClose ==
    /\ Alive /\ page.open
    /\ PageGone
    /\ IF mainpc = "goto"
       THEN /\ mainpc' = "rejected"
            /\ UNCHANGED <<output, identation, counts, fin>>
       ELSE /\ CloseSync
            /\ counts' = [counts EXCEPT !.dec = @ + 1, !.closeCalls = @ + 1,
                             !.bcCalls = IF ClosesBrowser THEN @ + 1 ELSE @]
            /\ fin' = IF ClosesBrowser THEN [fin EXCEPT !.bc = "pending"]
                      ELSE fin
            /\ mainpc' = mainpc
    /\ UNCHANGED <<opts, hev, scrollTimeout>>
    /\ UNCHANGED selvars

\* SIGINT.  Without the handler of lines 350-353 the signal ends the
\* process.  With it: await close(), then process.exit(); when close()
\* throws, process.exit() is not reached.
Sigint ==
    /\ Alive /\ MoreInput
    /\ IF mainpc # "running"
       THEN /\ mainpc' = "exited"
            /\ counts' = Bump("sigints")
            /\ UNCHANGED <<output, identation, fin>>
       ELSE /\ CloseSync
            /\ counts' = [counts EXCEPT !.sigints = @ + 1,
                             !.dec = @ + 1, !.closeCalls = @ + 1,
                             !.bcCalls = IF ClosesBrowser THEN @ + 1 ELSE @,
                             !.exits = IF ClosePushes /\ opts.ws THEN @ + 1
                                       ELSE @]
            /\ mainpc' = IF ClosePushes /\ opts.ws THEN "exited" ELSE mainpc
            /\ fin' = CASE ClosesBrowser ->
                             [fin EXCEPT !.bc = "pending", !.sigint = "awaiting"]
                        [] ~ClosePushes ->
                             [fin EXCEPT !.rejected = @ + 1]
                        [] OTHER -> fin
    /\ UNCHANGED <<opts, page, dclpc, hpc, hev, hst, scrollTimeout, timers>>
    /\ UNCHANGED selvars

\* browser.close() returns (line 343): the browser and its page are gone;
\* a SIGINT handler waiting for it calls process.exit() (line 352).
BrowserClosed ==
    /\ Alive /\ fin.bc = "pending"
    /\ fin' = [fin EXCEPT !.bc = "done"]
    /\ PageGone
    /\ mainpc' = IF fin.sigint = "awaiting" THEN "exited" ELSE mainpc
    /\ counts' = IF fin.sigint = "awaiting" THEN Bump("exits") ELSE counts
    /\ UNCHANGED <<opts, output, identation, hev, scrollTimeout>>
    /\ UNCHANGED selvars

----------------------------------------------------------------------------
Next ==
    \/ FrameNavigated
    \/ FrameNavigatedChild
    \/ DomContentLoaded
    \/ DclStep
    \/ GotoDone
    \/ \E kind \in TargetKinds :
          \E t \in TargetsOf(kind) : PausedDelivered(kind, t, TRUE)
    \/ \E kind \in TargetKinds : PausedDelivered(kind, 0, FALSE)
    \/ \E kind \in Kinds \ TargetKinds : PausedDelivered(kind, 0, TRUE)
    \/ \E kind \in TargetKinds : EventUnpaused(kind)
    \/ HeightGrows
    \/ HProps
    \/ HTarget
    \/ HIsSubmit
    \/ HValue
    \/ HSelect
    \/ HDomSend
    \/ HDomWrite
    \/ HResume1
    \/ HResume2
    \/ HResume3
    \/ HSkip
    \/ SendRejects
    \/ HMeasure
    \/ \E i \in 1..Len(timers) : TimerFires(i)
    \/ \E i \in 1..Len(timers) : TimerMeasured(i)
    \/ PageClose
    \/ Sigint
    \/ BrowserClosed

Spec == Init /\ [][Next]_vars

SpecSel == SelInit /\ [][SelNext]_vars

----------------------------------------------------------------------------
(* Properties *)

Count(k) == Cardinality({i \in DOMAIN output : output[i].k = k})
Outstanding == {i \in DOMAIN timers : timers[i].phase \in {"wait", "measure"}}

\* C1: whatever the sequence of page 'close' and SIGINT, the end-of-stream
\* marker is pushed exactly once (never twice, and once as soon as close()
\* has been called), and the line pushed just before it is the closing
\* skeleton line.
C1_EndOfStreamOnce ==
    /\ Count("EOS") <= 1
    /\ counts.closeCalls >= 1 => Count("EOS") = 1
    /\ \A i \in DOMAIN output :
         output[i].k = "EOS" => i > 1 /\ output[i - 1].k = "close"

\* close() has run twice (page 'close' and SIGINT, in either order).
C1_Witness == counts.closeCalls >= 2 /\ Count("EOS") = 1

\* C2: once finalization has run, the counter has been incremented as
\* often as decremented and the output holds exactly one opening and one
\* closing line.
C2_IndentationBalance ==
    counts.closeCalls >= 1 =>
        /\ counts.inc = counts.dec
        /\ Count("open") = 1
        /\ Count("close") = 1

\* C3: a handler that has ended while the page is there has sent
\* Debugger.resume exactly once, whatever its path.
C3_ResumeExactlyOnce ==
    (hpc = "idle" /\ hev.kind # "none" /\ hst.end # "rejected")
        => hst.resumes = 1

\* C4: every click, submit or change that fired with its breakpoint set
\* was handed to the handler as a pause: none went by unpaused (stated for
\* the runs in which the page fired clicks, submits and changes only).
C4_EveryEventPausesOnce ==
    counts.events = counts.fired => counts.delivered = counts.fired

\* C5: the handler of a click on a submit button appends no line (no
\* click line, no snapshot comment), never reaches the selector or
\* resume() and ends through skip(); no click line in the output names a
\* submit button.
C5_NoClickLineForSubmitButton ==
    /\ (hev.kind = "click" /\ hev.target \in doc.submits) =>
          /\ hst.lines = 0
          /\ hst.sel = NoSel
          /\ hpc \in {"props", "target", "isSubmit", "skip", "idle"}
    /\ \A i \in DOMAIN output : \A t \in doc.submits :
          output[i].k = "click" => output[i].sel # getSelector(doc, t)

\* A click on the submit button was handled to its end, with saveDom on.
C5_Witness ==
    /\ hev.kind = "click" /\ hev.target \in doc.submits /\ opts.saveDom
    /\ hpc = "idle" /\ hst.end = "done" /\ hst.resumes = 1

\* C6: a handler whose selector resolved to null appends no line.
C6_NullSelectorEmitsNothing == hst.sel = NullSel => hst.lines = 0

\* C7: a selector returned by getSelector matches exactly one node of the
\* document, the original target.
C7_SelectorUnique ==
    (selpc = "done" /\ result # NullSel) => Evaluate(doc, result) = {target}

\* C8: when the target's name is held by the target and by exactly one
\* other node, outside the target's subtree, and name+role by the target
\* only, getSelector returns the name+role form.
C8_Shared ==
    /\ target # 0 /\ doc.ax[target] /\ doc.name[target] # <<>>
    /\ \E o \in Nodes(doc) :
         /\ ~IsAncestorOrSelf(doc, target, o)
         /\ QueryByName(doc, doc.name[target], NoRole) = {target, o}
    /\ QueryByName(doc, doc.name[target], doc.role[target]) = {target}

C8_NameRoleForm ==
    (selpc = "done" /\ C8_Shared)
        => result = NameRoleSel(doc.name[target], doc.role[target])

\* C9: when the name read at a visited node does not contain the name read
\* at the node visited before it, that node is the last one visited and
\* the result is the structural selector of the original target.
AxName(x) == doc.name[SetMin(AXSubtree(doc, x))]

GuardBrokenAt(i) ==
    /\ i \in 2..Len(visited)
    /\ AXSubtree(doc, visited[i]) # {}
    /\ ~Includes(AxName(visited[i]), AxName(visited[i - 1]))

C9_SubstringGuard ==
    \A i \in 2..Len(visited) :
        GuardBrokenAt(i) =>
            /\ i = Len(visited)
            /\ selpc \in {"css", "done"}
            /\ selpc = "done" => result = cssPath(doc, target)

\* The walk lost the name at an ancestor and returned the CSS path.
C9_Witness ==
    /\ selpc = "done" /\ result = CssSel(target)
    /\ \E i \in 2..Len(visited) : GuardBrokenAt(i)

C11_NavigationAssertions == Count("expect") = page.navs

\* C12: no SIGINT handler ends without calling process.exit(), also when
\* the page was closed and finalized before the signal; and when
\* process.exit() is called the closing line and the end-of-stream marker
\* have been pushed.
C12_InterruptFinalizesAndExits ==
    /\ fin.rejected = 0
    /\ counts.exits >= 1 => (Count("close") = 1 /\ Count("EOS") = 1)

\* C13: browser.close() is never called when the recorder attached through
\* wsEndpoint; it is called (once) by finalization when the recorder
\* launched the browser; and whenever it has been called, the closing line
\* and the end-of-stream marker are already in the output.
C13_BrowserShutdown ==
    /\ opts.ws => (counts.bcCalls = 0 /\ fin.bc = "none")
    /\ (~opts.ws /\ counts.closeCalls >= 1) => counts.bcCalls = 1
    /\ counts.bcCalls >= 1 =>
          /\ Count("close") = 1 /\ Count("EOS") = 1
          /\ fin.bc \in {"pending", "done"}

\* Attached through wsEndpoint and finalized by SIGINT: the browser was
\* left running.
C13_Witness ==
    /\ opts.ws /\ counts.closeCalls >= 1 /\ counts.sigints >= 1
    /\ Count("EOS") = 1 /\ counts.bcCalls = 0

\* C14: after a client.send of a pause handler has rejected, the stream is
\* terminated without the closing line and the entry point has rejected.
C14_ProtocolFailureIsFatal ==
    hst.end = "sendError" =>
        /\ Count("EOS") = 1
        /\ Count("close") = 0
        /\ mainpc = "rejected"

InteractionKinds == {"click", "submit", "type", "scroll", "expect", "dom"}

\* C15: every interaction line stands at depth one, after the opening line
\* and before the closing line, and nothing follows the end-of-stream
\* marker.
C15_ClosedIsTerminal ==
    \A i \in DOMAIN output :
        /\ output[i].k = "EOS" => i = Len(output)
        /\ output[i].k \in InteractionKinds =>
              /\ output[i].ind = 1
              /\ \E j \in 1..(i - 1) : output[j].k = "open"
              /\ \A j \in 1..(i - 1) : output[j].k \notin {"close", "EOS"}

\* C16: at most one output-mutating handler is between its start and its
\* completion: a pause handler other than the scroll handler never runs
\* while a scroll check is outstanding, and no pause handler or scroll
\* check runs while close() awaits browser.close().
C16_SingleActiveHandler ==
    /\ ~(hpc # "idle" /\ hev.kind # "scroll" /\ Outstanding # {})
    /\ ~(fin.bc = "pending" /\ (hpc # "idle" \/ Outstanding # {}))

\* C17: (1) once a click, submit or change handler is in resume(), the
\* line of its interaction, when it has one, is in the output; (2) that
\* line is the last click/submit/type line of the output, so these lines
\* stand in the order of their pauses; (3) an expect line is appended only
\* while the page is not paused, hence after the line of the interaction
\* that caused the navigation; (4) every step leaves the earlier output
\* as a prefix of the later one.
LineKind(kind) == IF kind = "change" THEN "type" ELSE kind
HasLine ==
    /\ hev.kind \in TargetKinds
    /\ ~(hev.kind = "click" /\ hev.target \in doc.submits)
    /\ (hev.kind = "change" \/ hst.sel \notin {NullSel, NoSel})
PauseLines == {i \in DOMAIN output : output[i].k \in {"click", "submit", "type"}}
LineBeforeResume ==
    (HasLine /\ (hpc \in {"resume1", "resume2", "resume3"} \/ hst.resumes >= 1))
        => hst.lines >= 1
LinesInPauseOrder ==
    (hev.kind \in TargetKinds /\ hst.lines >= 1) =>
        /\ PauseLines # {}
        /\ LET last == CHOOSE i \in PauseLines : \A j \in PauseLines : j <= i
           IN /\ output[last].k = LineKind(hev.kind)
              /\ output[last].sel = hst.sel
OutputGrows ==
    /\ Len(output') >= Len(output)
    /\ SubSeq(output', 1, Len(output)) = output
C17_LineBeforeResume ==
    [][/\ LineBeforeResume'
       /\ LinesInPauseOrder'
       /\ (Count("expect")' > Count("expect") => ~page.paused)
       /\ OutputGrows]_vars

\* A click was recorded and resumed, and the navigation it caused was
\* asserted after the click line.
C17_Witness ==
    /\ hev.kind = "click" /\ hst.end = "done" /\ hst.lines = 1
    /\ \E i \in DOMAIN output :
         /\ output[i].k = "click"
         /\ \E j \in (i + 1)..Len(output) : output[j].k = "expect"

\* C18: at most one scroll timer is outstanding; while the handler awaits
\* the first measurement (between the test of scrollTimeout and the
\* creation of the timer) scrollTimeout is still null and no timer is
\* outstanding; a non-null scrollTimeout refers to the newest timer; and a
\* timer that reset scrollTimeout found it referring to itself.
C18_OneTimerOutstanding ==
    /\ Cardinality(Outstanding) <= 1
    /\ hpc = "measure" => (scrollTimeout = 0 /\ Outstanding = {})
    /\ scrollTimeout # 0 => scrollTimeout = Len(timers)
    /\ Outstanding \subseteq {scrollTimeout}
    /\ \A i \in DOMAIN timers :
         timers[i].phase = "done" => timers[i].reset = i

\* A second timer was created after the first one had reset scrollTimeout.
C18_Witness ==
    /\ Len(timers) = 2
    /\ timers[1].phase = "done" /\ timers[1].reset = 1
    /\ timers[2].phase \in {"wait", "measure"} /\ scrollTimeout = 2

\* C19: whenever no pause handler is in progress, the skip-all-pauses flag
\* of the debugger is off.
C19_SkipAllPausesOff == hpc = "idle" => ~page.skipAll

\* C20: getSelector terminates on every document: every step of it lowers
\* a rank that is a natural number (the depth of the current node while
\* the walk runs), and a step is possible until the result is there.  The
\* walk starts at the target and each further iteration is on the strict
\* parent of the node before; a result in accessible form carries the
\* non-empty name read at the last node visited, and every other result
\* is the structural selector of the original target.
RECURSIVE Depth(_, _)
Depth(d, x) == IF x = 0 THEN 0 ELSE 1 + Depth(d, d.parent[x])
WalkRank ==
    CASE selpc = "done" -> 0
      [] selpc = "css" -> 1
      [] OTHER -> 2 + Depth(doc, cur)
WalkClimbs ==
    /\ Len(visited) <= Depth(doc, target)
    /\ visited # <<>> => visited[1] = target
    /\ \A i \in 2..Len(visited) :
         /\ visited[i] = doc.parent[visited[i - 1]]
         /\ visited[i] # 0
         /\ AXSubtree(doc, visited[i - 1]) # {}
ResultShape ==
    selpc = "done" =>
        IF result.form \in {"name", "nameRole"}
        THEN /\ visited # <<>>
             /\ AXSubtree(doc, visited[Len(visited)]) # {}
             /\ result.name = AxName(visited[Len(visited)])
             /\ result.name # <<>>
        ELSE result = cssPath(doc, target)
C20_WalkTerminates ==
    [][/\ WalkRank' < WalkRank
       /\ selpc' \in {"walk", "css", "done"}
       /\ selpc' = "walk" => cur' \in Nodes(doc)
       /\ WalkClimbs'
       /\ ResultShape']_vars

\* The walk passed the root without a result: the target is nameless and
\* so is every ancestor; the structural selector was returned.
C20_Witness ==
    /\ selpc = "done" /\ result = CssSel(target)
    /\ Len(visited) >= 2
    /\ visited[Len(visited)] = 1
    /\ AXSubtree(doc, 1) # {} /\ AxName(1) = <<>>
    /\ cur = 0

====
